---- MODULE Spec2Model ----
(***************************************************************************)
(* A model of the command-line finance manager in src/main.py: the SQLite  *)
(* tables users / transactions / budgets, the backup files, the session    *)
(* held by main(), and one action per menu handler.                        *)
(*                                                                         *)
(* Text is modelled as a sequence of one-character strings, so that        *)
(* str.strip, str.capitalize, datetime.strptime, SQLite's LIKE and its     *)
(* text comparison are computed rather than assumed.  Amounts are whole    *)
(* numbers of the smallest currency unit.                                  *)
(***************************************************************************)
EXTENDS Integers, Sequences, FiniteSets, TLC

VARIABLES
    pc,           \* where main() is: "off", "main", "dash", "done"
    user_id,      \* main()'s local user_id; 0 stands for None
    users,        \* table users, in id order
    transactions, \* table transactions, in id order
    txSeq,        \* sqlite_sequence of transactions (AUTOINCREMENT)
    budgets,      \* table budgets, in id order
    backups,      \* the finance_backup_*.db files: snapshots of the database
    out           \* what the last handler printed

vars == <<pc, user_id, users, transactions, txSeq, budgets, backups, out>>

-----------------------------------------------------------------------------
(* Bounds of the model. *)

\* at most this many rows are ever inserted into transactions
MaxTx == 2
\* at most this many backup files are ever written
MaxBackups == 1

-----------------------------------------------------------------------------
(* Characters and text. *)

LowerCase == <<"a","b","c","d","e","f","g","h","i","j","k","l","m",
               "n","o","p","q","r","s","t","u","v","w","x","y","z">>
UpperCase == <<"A","B","C","D","E","F","G","H","I","J","K","L","M",
               "N","O","P","Q","R","S","T","U","V","W","X","Y","Z">>
Digits    == <<"0","1","2","3","4","5","6","7","8","9">>

\* the characters in the order of their code points
CharOrder == <<" ", "-", "/">> \o Digits \o UpperCase \o LowerCase

IndexOf(c, seq) ==
    IF \E i \in 1..Len(seq) : seq[i] = c
    THEN CHOOSE i \in 1..Len(seq) : seq[i] = c
    ELSE 0

Ord(c) == IndexOf(c, CharOrder)

IsDigit(c) == IndexOf(c, Digits) > 0
DigitVal(c) == IndexOf(c, Digits) - 1
DigitChar(n) == Digits[n + 1]

\* str.upper / str.lower on one character
Upper(c) == IF IndexOf(c, LowerCase) > 0 THEN UpperCase[IndexOf(c, LowerCase)] ELSE c
Lower(c) == IF IndexOf(c, UpperCase) > 0 THEN LowerCase[IndexOf(c, UpperCase)] ELSE c

\* str.capitalize(): first character upper-cased, the rest lower-cased
Capitalize(s) ==
    [i \in 1..Len(s) |-> IF i = 1 THEN Upper(s[i]) ELSE Lower(s[i])]

\* str.strip(): leading and trailing blanks removed
Strip(s) ==
    LET idx == {i \in 1..Len(s) : s[i] # " "}
        Min(S) == CHOOSE x \in S : \A y \in S : x <= y
        Max(S) == CHOOSE x \in S : \A y \in S : x >= y
    IN  IF idx = {} THEN <<>> ELSE SubSeq(s, Min(idx), Max(idx))

\* binary text comparison, as SQLite's default collation compares TEXT
RECURSIVE TextLess(_, _)
TextLess(a, b) ==
    IF b = <<>> THEN FALSE
    ELSE IF a = <<>> THEN TRUE
    ELSE IF Ord(Head(a)) # Ord(Head(b)) THEN Ord(Head(a)) < Ord(Head(b))
    ELSE TextLess(Tail(a), Tail(b))

TextGeq(a, b) == ~TextLess(a, b)

\* s LIKE p || '%' for a pattern p without wildcards (digits and '-')
LikePrefix(s, p) == Len(s) >= Len(p) /\ SubSeq(s, 1, Len(p)) = p

-----------------------------------------------------------------------------
(* Dates. *)

IsLeap(y) == (y % 4 = 0 /\ y % 100 # 0) \/ y % 400 = 0

DaysIn(y, m) ==
    IF m = 2 THEN (IF IsLeap(y) THEN 29 ELSE 28)
    ELSE IF m \in {4, 6, 9, 11} THEN 30 ELSE 31

\* the number a text of digits denotes
RECURSIVE NumVal(_)
NumVal(s) == IF s = <<>> THEN 0
             ELSE 10 * NumVal(SubSeq(s, 1, Len(s) - 1)) + DigitVal(s[Len(s)])

\* datetime.strptime(s, '%Y-%m-%d'): the directive patterns are
\*   %Y  \d\d\d\d      %m  1[0-2]|0[1-9]|[1-9]
\*   %d  3[01]|[12]\d|0[1-9]|[1-9]| [1-9]
\* the whole text must be consumed and the date must exist.
MonthField(f) ==
    \/ Len(f) = 2 /\ f[1] = "1" /\ f[2] \in {"0", "1", "2"}
    \/ Len(f) = 2 /\ f[1] = "0" /\ IsDigit(f[2]) /\ f[2] # "0"
    \/ Len(f) = 1 /\ IsDigit(f[1]) /\ f[1] # "0"

DayField(f) ==
    \/ Len(f) = 2 /\ f[1] = "3" /\ f[2] \in {"0", "1"}
    \/ Len(f) = 2 /\ f[1] \in {"1", "2"} /\ IsDigit(f[2])
    \/ Len(f) = 2 /\ f[1] = "0" /\ IsDigit(f[2]) /\ f[2] # "0"
    \/ Len(f) = 1 /\ IsDigit(f[1]) /\ f[1] # "0"
    \/ Len(f) = 2 /\ f[1] = " " /\ IsDigit(f[2]) /\ f[2] # "0"

FieldVal(f) == NumVal(SelectSeq(f, IsDigit))

NoDate == [ok |-> FALSE, y |-> 0, m |-> 0, d |-> 0]

Strptime(s) ==
    IF Len(s) < 8 \/ Len(s) > 10 THEN NoDate
    ELSE IF ~(\A i \in 1..4 : IsDigit(s[i])) \/ s[5] # "-" THEN NoDate
    ELSE LET dash == {i \in 6..Len(s) : s[i] = "-"}
         IN  IF Cardinality(dash) # 1 THEN NoDate
             ELSE LET k  == CHOOSE i \in dash : TRUE
                      mf == SubSeq(s, 6, k - 1)
                      df == SubSeq(s, k + 1, Len(s))
                      y  == NumVal(SubSeq(s, 1, 4))
                  IN  IF ~MonthField(mf) \/ ~DayField(df) THEN NoDate
                      ELSE IF y < 1 \/ FieldVal(df) > DaysIn(y, FieldVal(mf))
                           THEN NoDate
                      ELSE [ok |-> TRUE, y |-> y, m |-> FieldVal(mf),
                            d |-> FieldVal(df)]

validate_date(date_str) == Strptime(date_str).ok

\* n written with at least w digits, zero padded
RECURSIVE Pad(_, _)
Pad(n, w) == IF w <= 1 /\ n < 10 THEN <<DigitChar(n)>>
             ELSE Pad(n \div 10, w - 1) \o <<DigitChar(n % 10)>>

\* SQLite's date(): YYYY-MM-DD
IsoDate(y, m, d) == Pad(y, 4) \o <<"-">> \o Pad(m, 2) \o <<"-">> \o Pad(d, 2)

\* date('now', 'start of month') when the clock reads `now`
StartOfMonth(now) == IsoDate(now.y, now.m, 1)

-----------------------------------------------------------------------------
(* Text constants of the program and of the inputs. *)

Income  == <<"I","n","c","o","m","e">>
Expense == <<"E","x","p","e","n","s","e">>
TypeNames == {Income, Expense}

-----------------------------------------------------------------------------
(* Input parsing shared by the handlers. *)

\* float(input(...)) / int(input(...)): a token either denotes a number or
\* raises ValueError
Num(n)  == [num |-> TRUE,  val |-> n]
NotNum  == [num |-> FALSE, val |-> 0]

\* the `while True: ... break` prompts: the first attempt that passes is taken
Passing(oks) == {i \in 1..Len(oks) : oks[i]}
FirstAccepted(tries, oks) ==
    tries[CHOOSE i \in Passing(oks) : \A j \in Passing(oks) : i <= j]

TypeOk(raw)   == Capitalize(raw) \in TypeNames
AmountOk(tok) == tok.num /\ ~(tok.val <= 0)
DateOk(raw)   == validate_date(raw)

TypeOks(tries)   == [i \in 1..Len(tries) |-> TypeOk(tries[i])]
AmountOks(tries) == [i \in 1..Len(tries) |-> AmountOk(tries[i])]
DateOks(tries)   == [i \in 1..Len(tries) |-> DateOk(tries[i])]

-----------------------------------------------------------------------------
(* Password hashing. *)

\* hashlib.pbkdf2_hmac: an injective digest of (password, salt)
Pbkdf2(password, salt) == <<salt, password>>

hash_password(password, salt) == [salt |-> salt, hash |-> Pbkdf2(password, salt)]

\* a check that accepts every password
verify_password_any(stored_password, provided_password) == TRUE

verify_password(stored_password, provided_password) ==
    Pbkdf2(provided_password, stored_password.salt) = stored_password.hash

-----------------------------------------------------------------------------
(* The database file and the state of main(). *)

Database == [users |-> users, transactions |-> transactions,
             txSeq |-> txSeq, budgets |-> budgets]

Said(op, msg, data) == [op |-> op, msg |-> msg, data |-> data]

Init ==
    /\ pc = "off"
    /\ user_id = 0
    /\ users = <<>>
    /\ transactions = <<>>
    /\ txSeq = 0
    /\ budgets = <<>>
    /\ backups = <<>>
    /\ out = Said("none", "", <<>>)

\* a handler whose except clause re-raises, as create_database() does: the
\* exception reaches the outer handler of main(), which returns
AfterErrorRaised(loop) == "done"

\* where control is after a handler caught an exception and printed its
\* failure message: back in the menu loop that called the handler
AfterError(loop) == loop

dbUnchanged == UNCHANGED <<users, transactions, txSeq, budgets>>

\* create_database() at the top of main(): the tables are created if they
\* do not exist; a failure is re-raised and ends main()
Launch(fail) ==
    /\ pc \in {"off", "done"}
    /\ user_id' = 0
    /\ UNCHANGED <<backups>>
    /\ dbUnchanged
    /\ IF fail
       THEN /\ pc' = "done"
            /\ out' = Said("launch", "critical error", <<>>)
       ELSE /\ pc' = "main"
            /\ out' = Said("launch", "menu", <<>>)

-----------------------------------------------------------------------------
(* Top-level menu. *)

UserNamed(name) == SelectSeq(users, LAMBDA u : u.username = name)

register_user(rawName, password, confirm_password, salt, fail) ==
    /\ pc = "main"
    /\ UNCHANGED <<user_id, transactions, txSeq, budgets, backups>>
    /\ LET username == Strip(rawName)
       IN  IF username = <<>>
           THEN /\ out' = Said("register", "username empty", <<>>)
                /\ UNCHANGED <<pc, users>>
           ELSE IF password # confirm_password
           THEN /\ out' = Said("register", "passwords do not match", <<>>)
                /\ UNCHANGED <<pc, users>>
           ELSE IF Len(password) < 8
           THEN /\ out' = Said("register", "password too short", <<>>)
                /\ UNCHANGED <<pc, users>>
           ELSE IF fail
           THEN /\ out' = Said("register", "failed", <<>>)
                /\ pc' = AfterError(pc)
                /\ UNCHANGED users
           ELSE IF UserNamed(username) # <<>>
           THEN /\ out' = Said("register", "username exists", <<>>)
                /\ pc' = AfterError(pc)
                /\ UNCHANGED users
           ELSE /\ users' = Append(users,
                        [id |-> Len(users) + 1, username |-> username,
                         password |-> hash_password(password, salt)])
                /\ out' = Said("register", "registered", <<>>)
                /\ UNCHANGED pc

\* what the login prompts were given, and the id login_user() returned
\* (0 for None)
Entered(id, rawName, password) ==
    [id |-> id, username |-> rawName, password |-> password]

login_user(rawName, password, fail) ==
    /\ pc = "main"
    /\ UNCHANGED <<backups>>
    /\ dbUnchanged
    /\ LET found == UserNamed(Strip(rawName))
       IN  IF fail
           THEN /\ out' = Said("login", "failed", Entered(0, rawName, password))
                /\ pc' = AfterError(pc)
                /\ user_id' = 0
           ELSE IF found # <<>> /\ verify_password(found[1].password, password)
           THEN /\ out' = Said("login", "welcome",
                               Entered(found[1].id, rawName, password))
                /\ user_id' = found[1].id
                /\ pc' = "dash"
           ELSE /\ out' = Said("login", "invalid", Entered(0, rawName, password))
                /\ user_id' = 0
                /\ UNCHANGED pc

Exit ==
    /\ pc = "main"
    /\ pc' = "done"
    /\ out' = Said("exit", "goodbye", <<>>)
    /\ UNCHANGED <<user_id, backups>>
    /\ dbUnchanged

Logout ==
    /\ pc = "dash"
    /\ pc' = "done"
    /\ user_id' = 0
    /\ out' = Said("logout", "logged out", <<>>)
    /\ UNCHANGED <<backups>>
    /\ dbUnchanged

InvalidChoice ==
    /\ pc \in {"main", "dash"}
    /\ out' = Said("menu", "invalid choice", <<>>)
    /\ UNCHANGED <<pc, user_id, backups>>
    /\ dbUnchanged

-----------------------------------------------------------------------------
(* Backup and restore. *)

backup_data(fail) ==
    /\ pc \in {"main", "dash"}
    /\ UNCHANGED <<user_id>>
    /\ dbUnchanged
    /\ IF fail
       THEN /\ out' = Said("backup", "failed", <<>>)
            /\ pc' = AfterError(pc)
            /\ UNCHANGED backups
       ELSE /\ Len(backups) < MaxBackups
            /\ backups' = Append(backups, Database)
            /\ out' = Said("backup", "completed", <<>>)
            /\ UNCHANGED pc

\* choice: "cancel", or a token handed to int(); confirm: the y/n answer
restore_data(cancel, choice, confirm, fail) ==
    /\ pc \in {"main", "dash"}
    /\ UNCHANGED <<user_id, backups>>
    /\ IF backups = <<>>
       THEN /\ out' = Said("restore", "no backup files", <<>>)
            /\ UNCHANGED pc /\ dbUnchanged
       ELSE IF cancel
       THEN /\ out' = Said("restore", "", <<>>)
            /\ UNCHANGED pc /\ dbUnchanged
       ELSE LET n == Len(backups)
                \* backups[int(choice) - 1]: Python indexes from the end
                \* for a negative index
                i == choice.val - 1
                k == IF i >= 0 THEN i + 1 ELSE n + i + 1
            IN  IF ~choice.num \/ k < 1 \/ k > n
                THEN /\ out' = Said("restore", "invalid selection", <<>>)
                     /\ UNCHANGED pc /\ dbUnchanged
                ELSE IF Lower(confirm) # "y"
                THEN /\ out' = Said("restore", "cancelled", <<>>)
                     /\ UNCHANGED pc /\ dbUnchanged
                ELSE IF fail
                THEN /\ out' = Said("restore", "failed", <<>>)
                     /\ pc' = AfterError(pc)
                     /\ dbUnchanged
                ELSE /\ users' = backups[k].users
                     /\ transactions' = backups[k].transactions
                     /\ txSeq' = backups[k].txSeq
                     /\ budgets' = backups[k].budgets
                     /\ out' = Said("restore", "restored", <<>>)
                     /\ UNCHANGED pc

-----------------------------------------------------------------------------
(* Transaction ledger. *)

RECURSIVE SumAmount(_)
SumAmount(rows) == IF rows = <<>> THEN 0
                   ELSE Head(rows).amount + SumAmount(Tail(rows))

\* INSERT INTO transactions (...) VALUES (...): AUTOINCREMENT gives the row
\* an id above every id ever used
InsertTransaction(rows, seq, uid, type, category, amount, description, date) ==
    Append(rows, [id |-> seq + 1, user_id |-> uid, type |-> type,
                  category |-> category, amount |-> amount,
                  description |-> description, date |-> date])

add_transaction(typeTries, rawCategory, amountTries, description, dateTries, fail) ==
    /\ pc = "dash"
    /\ UNCHANGED <<user_id, users, budgets, backups>>
    /\ Passing(TypeOks(typeTries)) # {}
    /\ LET type     == Capitalize(FirstAccepted(typeTries, TypeOks(typeTries)))
           category == Strip(rawCategory)
       IN  IF category = <<>>
           THEN /\ out' = Said("add", "category empty", <<>>)
                /\ UNCHANGED <<pc, transactions, txSeq>>
           ELSE /\ Passing(AmountOks(amountTries)) # {}
                /\ Passing(DateOks(dateTries)) # {}
                /\ LET amount == FirstAccepted(amountTries, AmountOks(amountTries)).val
                       date   == FirstAccepted(dateTries, DateOks(dateTries))
                   IN  IF fail
                       THEN /\ out' = Said("add", "failed", <<>>)
                            /\ pc' = AfterError(pc)
                            /\ UNCHANGED <<transactions, txSeq>>
                       ELSE /\ txSeq < MaxTx
                            /\ transactions' = InsertTransaction(transactions,
                                   txSeq, user_id, type, category, amount,
                                   description, date)
                            /\ txSeq' = txSeq + 1
                            /\ out' = Said("add", "added",
                                   [id |-> txSeq + 1,
                                    type |-> FirstAccepted(typeTries, TypeOks(typeTries)),
                                    category |-> rawCategory,
                                    amount |-> FirstAccepted(amountTries, AmountOks(amountTries)),
                                    description |-> description,
                                    date |-> date])
                            /\ UNCHANGED pc

\* the SELECT without its WHERE user_id = ? clause
OwnedByAnyone(rows, uid) == rows

\* SELECT id, type, category, amount, description, date FROM transactions
\* WHERE user_id = ?
OwnedBy(rows, uid) == SelectSeq(rows, LAMBDA t : t.user_id = uid)

Shown(t) == [id |-> t.id, type |-> t.type, category |-> t.category,
             amount |-> t.amount, description |-> t.description,
             date |-> t.date]

\* ... ORDER BY date DESC: every order of the selected rows in which the
\* dates do not increase (rows of equal date come in an unspecified order)
ViewRows(rows, uid) ==
    LET sel == OwnedBy(rows, uid)
        n   == Len(sel)
        perms == {p \in [1..n -> 1..n] : \A i, j \in 1..n : i # j => p[i] # p[j]}
    IN  {[i \in 1..n |-> Shown(sel[p[i]])] : p \in
            {q \in perms : \A i \in 1..n : \A j \in 1..n :
                 i < j => TextGeq(sel[q[i]].date, sel[q[j]].date)}}

view_transactions(fail) ==
    /\ pc = "dash"
    /\ UNCHANGED <<user_id, backups>>
    /\ dbUnchanged
    /\ IF fail
       THEN /\ out' = Said("view", "failed", <<>>)
            /\ pc' = AfterError(pc)
       ELSE /\ \E listing \in ViewRows(transactions, user_id) :
                out' = IF listing = <<>>
                       THEN Said("view", "no transactions", <<>>)
                       ELSE Said("view", "listed", listing)
            /\ UNCHANGED pc

\* SELECT * FROM transactions WHERE id = ? AND user_id = ?
\* SELECT * FROM transactions WHERE id = ?, not scoped by owner
FindById(rows, tid, uid) ==
    SelectSeq(rows, LAMBDA t : t.id = tid)

\* SELECT * FROM transactions WHERE id = ? AND user_id = ?
FindOwned(rows, tid, uid) ==
    SelectSeq(rows, LAMBDA t : t.id = tid /\ t.user_id = uid)

\* UPDATE transactions SET type = ?, category = ?, amount = ?,
\* description = ?, date = ? WHERE id = ? AND user_id = ?
UpdateRows(rows, tid, uid, type, category, amount, description, date) ==
    [i \in 1..Len(rows) |->
        IF rows[i].id = tid /\ rows[i].user_id = uid
        THEN [rows[i] EXCEPT !.type = type, !.category = category,
                             !.amount = amount, !.description = description,
                             !.date = date]
        ELSE rows[i]]

update_transaction(idTok, typeTries, rawCategory, amountTries, description, dateTries, fail) ==
    /\ pc = "dash"
    /\ UNCHANGED <<user_id, users, txSeq, budgets, backups>>
    /\ IF ~idTok.num
       THEN /\ out' = Said("update", "invalid id", <<>>)
            /\ UNCHANGED <<pc, transactions>>
       ELSE IF fail
       THEN /\ out' = Said("update", "failed", <<idTok.val>>)
            /\ pc' = AfterError(pc)
            /\ UNCHANGED transactions
       ELSE IF FindOwned(transactions, idTok.val, user_id) = <<>>
       THEN /\ out' = Said("update", "not found", <<idTok.val>>)
            /\ UNCHANGED <<pc, transactions>>
       ELSE /\ Passing(TypeOks(typeTries)) # {}
            /\ LET type     == Capitalize(FirstAccepted(typeTries, TypeOks(typeTries)))
                   category == Strip(rawCategory)
               IN  IF category = <<>>
                   THEN /\ out' = Said("update", "category empty", <<idTok.val>>)
                        /\ UNCHANGED <<pc, transactions>>
                   ELSE /\ Passing(AmountOks(amountTries)) # {}
                        /\ Passing(DateOks(dateTries)) # {}
                        /\ transactions' = UpdateRows(transactions, idTok.val,
                               user_id, type, category,
                               FirstAccepted(amountTries, AmountOks(amountTries)).val,
                               description,
                               FirstAccepted(dateTries, DateOks(dateTries)))
                        /\ out' = Said("update", "updated", <<idTok.val>>)
                        /\ UNCHANGED pc

\* DELETE FROM transactions WHERE id = ?, not scoped by owner
DeleteRowsById(rows, tid, uid) ==
    SelectSeq(rows, LAMBDA t : t.id # tid)

\* DELETE FROM transactions WHERE id = ? AND user_id = ?
DeleteRows(rows, tid, uid) ==
    SelectSeq(rows, LAMBDA t : ~(t.id = tid /\ t.user_id = uid))

delete_transaction(idTok, confirm, fail) ==
    /\ pc = "dash"
    /\ UNCHANGED <<user_id, users, txSeq, budgets, backups>>
    /\ IF ~idTok.num
       THEN /\ out' = Said("delete", "invalid id", <<>>)
            /\ UNCHANGED <<pc, transactions>>
       ELSE IF Lower(confirm) # "y"
       THEN /\ out' = Said("delete", "cancelled", <<idTok.val>>)
            /\ UNCHANGED <<pc, transactions>>
       ELSE IF fail
       THEN /\ out' = Said("delete", "failed", <<idTok.val>>)
            /\ pc' = AfterError(pc)
            /\ UNCHANGED transactions
       ELSE LET left == DeleteRows(transactions, idTok.val, user_id)
            \* cursor.rowcount > 0
            IN  IF Len(transactions) - Len(left) > 0
                THEN /\ transactions' = left
                     /\ out' = Said("delete", "deleted", <<idTok.val>>)
                     /\ UNCHANGED pc
                ELSE /\ out' = Said("delete", "not found", <<idTok.val>>)
                     /\ UNCHANGED <<pc, transactions>>

-----------------------------------------------------------------------------
(* Budget engine. *)

\* a plain INSERT on a table without the UNIQUE(user_id, category) constraint
InsertPlain(rows, uid, category, amount) ==
    Append(rows, [user_id |-> uid, category |-> category, amount |-> amount])

\* INSERT OR REPLACE INTO budgets (user_id, category, amount): a row that
\* conflicts on UNIQUE(user_id, category) is deleted, then the row is inserted
InsertOrReplace(rows, uid, category, amount) ==
    Append(SelectSeq(rows, LAMBDA b : ~(b.user_id = uid /\ b.category = category)),
           [user_id |-> uid, category |-> category, amount |-> amount])

set_budget(rawCategory, amountTok, fail) ==
    /\ pc = "dash"
    /\ UNCHANGED <<user_id, users, transactions, txSeq, backups>>
    /\ LET category == Strip(rawCategory)
       IN  IF category = <<>>
           THEN /\ out' = Said("set_budget", "category empty", <<>>)
                /\ UNCHANGED <<pc, budgets>>
           ELSE IF ~amountTok.num
           THEN /\ out' = Said("set_budget", "invalid amount", <<>>)
                /\ pc' = AfterError(pc)
                /\ UNCHANGED budgets
           ELSE IF amountTok.val <= 0
           THEN /\ out' = Said("set_budget", "amount not positive", <<>>)
                /\ UNCHANGED <<pc, budgets>>
           ELSE IF fail
           THEN /\ out' = Said("set_budget", "failed", <<>>)
                /\ pc' = AfterError(pc)
                /\ UNCHANGED budgets
           ELSE /\ budgets' = InsertOrReplace(budgets, user_id, category,
                                              amountTok.val)
                /\ out' = Said("set_budget", "set",
                               [category |-> category, amount |-> amountTok.val])
                /\ UNCHANGED pc

\* the rows of t that the LEFT JOIN attaches to budget row b
Matching(b, rows, now) ==
    SelectSeq(rows, LAMBDA t :
        /\ b.user_id = t.user_id
        /\ b.category = t.category
        /\ t.type = Expense
        /\ TextGeq(t.date, StartOfMonth(now)))

\* SELECT b.category, b.amount, COALESCE(SUM(t.amount), 0) ...
\* WHERE b.user_id = ? GROUP BY b.category, b.amount
RECURSIVE SumMatching(_, _, _)
SumMatching(bs, rows, now) ==
    IF bs = <<>> THEN 0
    ELSE SumAmount(Matching(Head(bs), rows, now)) + SumMatching(Tail(bs), rows, now)

\* the query with an inner JOIN: budgets without a matching expense drop out
BudgetResultsInnerJoin(bs, rows, uid, now) ==
    LET mine   == SelectSeq(bs, LAMBDA b :
                      b.user_id = uid /\ Matching(b, rows, now) # <<>>)
        groups == {<<mine[i].category, mine[i].amount>> : i \in 1..Len(mine)}
    IN  {[category |-> g[1], budget_amount |-> g[2],
          spent |-> SumMatching(
              SelectSeq(mine, LAMBDA b : b.category = g[1] /\ b.amount = g[2]),
              rows, now)] : g \in groups}

BudgetResults(bs, rows, uid, now) ==
    LET mine   == SelectSeq(bs, LAMBDA b : b.user_id = uid)
        groups == {<<mine[i].category, mine[i].amount>> : i \in 1..Len(mine)}
    IN  {[category |-> g[1], budget_amount |-> g[2],
          spent |-> SumMatching(
              SelectSeq(mine, LAMBDA b : b.category = g[1] /\ b.amount = g[2]),
              rows, now)] : g \in groups}

\* the loop over results: which rows are printed as exceeded
Exceeded(r) == r.spent > r.budget_amount

check_budget(now, fail) ==
    /\ pc = "dash"
    /\ UNCHANGED <<user_id, backups>>
    /\ dbUnchanged
    /\ IF fail
       THEN /\ out' = Said("check_budget", "failed", <<>>)
            /\ pc' = AfterError(pc)
       ELSE /\ UNCHANGED pc
            /\ LET results == BudgetResults(budgets, transactions, user_id, now)
                   lines   == {[category |-> r.category,
                                budget_amount |-> r.budget_amount,
                                spent |-> r.spent,
                                exceeded |-> Exceeded(r)] : r \in results}
               IN  out' = IF results = {}
                          THEN Said("check_budget", "no budgets set",
                                    [now |-> now, lines |-> {}])
                          ELSE IF \E r \in results : Exceeded(r)
                          THEN Said("check_budget", "exceeded",
                                    [now |-> now, lines |-> lines])
                          ELSE Said("check_budget", "all within limits",
                                    [now |-> now, lines |-> lines])

-----------------------------------------------------------------------------
(* Report generator. *)

\* the three statements generate_reports() hands to cursor.execute, as tokens
MonthlyStmt ==
    <<"SELECT", "type", ",", "SUM(amount)", "FROM", "transactions",
      "WHERE", "user_id", "=", "?", "AND", "date", "LIKE", "?",
      "GROUP", "BY", "type">>

YearlyStmt ==
    <<"SELECT", "type", ",", "SUM(amount)", "FROM", "transactions",
      "WHERESELECT", "type", ",", "SUM(amount)", "FROM", "transactions",
      "WHERE", "user_id", "=", "?", "AND", "date", "LIKE", "?",
      "GROUP", "BY", "type">>

BreakdownStmt ==
    <<"SELECT", "category", ",", "SUM(amount)", "as", "total",
      "FROM", "transactions",
      "WHERE", "user_id", "=", "?", "AND", "type", "=", "'Expense'",
      "AND", "date", "LIKE", "?",
      "GROUP", "BY", "category", "ORDER", "BY", "total", "DESC">>

\* what may follow the table (and its optional alias) of a simple SELECT
ClauseWords == {"WHERE", "GROUP", "ORDER", "LIMIT"}

\* whether SQLite's parser accepts the statement: after FROM <table> comes a
\* clause, or an alias and then a clause, or the end of the statement
SqlPrepares(stmt) ==
    LET f == IndexOf("FROM", stmt)
        At(i) == IF i <= Len(stmt) THEN stmt[i] ELSE ""
        Clause(i) == At(i) = "" \/ At(i) \in ClauseWords
    IN  /\ f > 0
        /\ At(f + 1) # ""
        /\ \/ Clause(f + 2)
           \/ Clause(f + 3)

\* f"{year}-{month}-01" and the LIKE patterns f"{year}-{month}-%", f"{year}-%"
FirstOfMonth(p) == p.year \o <<"-">> \o p.month \o <<"-", "0", "1">>
MonthPrefix(p)  == p.year \o <<"-">> \o p.month \o <<"-">>
YearPrefix(p)   == p.year \o <<"-">>

PeriodOk(p) == validate_date(FirstOfMonth(p))

PeriodOks(tries) == [i \in 1..Len(tries) |-> PeriodOk(tries[i])]

\* SELECT type, SUM(amount) ... WHERE user_id = ? AND date LIKE ? GROUP BY
\* type, and the totals summed from it
Totals(rows, uid, prefix) ==
    LET sel == SelectSeq(rows, LAMBDA t :
                   t.user_id = uid /\ LikePrefix(t.date, prefix))
        data == {<<ty, SumAmount(SelectSeq(sel, LAMBDA t : t.type = ty))>> :
                    ty \in {sel[i].type : i \in 1..Len(sel)}}
        Of(ty) == IF \E d \in data : d[1] = ty
                  THEN (CHOOSE d \in data : d[1] = ty)[2] ELSE 0
    IN  [income |-> Of(Income), expense |-> Of(Expense),
         savings |-> Of(Income) - Of(Expense)]

\* (amount / monthly_expense * 100) if monthly_expense > 0 else 0, kept as
\* an exact fraction
Percentage(amount, monthly_expense) ==
    IF monthly_expense > 0
    THEN [num |-> amount * 100, den |-> monthly_expense]
    ELSE [num |-> 0, den |-> 1]

\* SELECT category, SUM(amount) as total ... GROUP BY category ORDER BY
\* total DESC: every order in which the totals do not increase
Breakdown(rows, uid, prefix, monthly_expense) ==
    LET sel == SelectSeq(rows, LAMBDA t :
                   t.user_id = uid /\ t.type = Expense
                   /\ LikePrefix(t.date, prefix))
        cats == {sel[i].category : i \in 1..Len(sel)}
        Total(c) == SumAmount(SelectSeq(sel, LAMBDA t : t.category = c))
        n == Cardinality(cats)
    IN  {[i \in 1..n |-> [category |-> q[i], amount |-> Total(q[i]),
                          percentage |-> Percentage(Total(q[i]), monthly_expense)]] :
            q \in {p \in [1..n -> cats] :
                     /\ \A i, j \in 1..n : i # j => p[i] # p[j]
                     /\ \A i, j \in 1..n : i < j => Total(p[i]) >= Total(p[j])}}

\* data printed by generate_reports: each part is <<>> until it is printed
Report(period, monthly, yearly, breakdown) ==
    [period |-> period, monthly |-> monthly, yearly |-> yearly,
     breakdown |-> breakdown]

generate_reports(periodTries, fail) ==
    /\ pc = "dash"
    /\ UNCHANGED <<user_id, backups>>
    /\ dbUnchanged
    /\ Passing(PeriodOks(periodTries)) # {}
    /\ LET period == FirstAccepted(periodTries, PeriodOks(periodTries))
           monthly == Totals(transactions, user_id, MonthPrefix(period))
           yearly  == Totals(transactions, user_id, YearPrefix(period))
       IN  IF fail \/ ~SqlPrepares(MonthlyStmt)
           THEN /\ out' = Said("report", "failed",
                               Report(period, <<>>, <<>>, <<>>))
                /\ pc' = AfterError(pc)
           ELSE IF ~SqlPrepares(YearlyStmt)
           THEN /\ out' = Said("report", "failed",
                               Report(period, <<monthly>>, <<>>, <<>>))
                /\ pc' = AfterError(pc)
           ELSE IF ~SqlPrepares(BreakdownStmt)
           THEN /\ out' = Said("report", "failed",
                               Report(period, <<monthly>>, <<yearly>>, <<>>))
                /\ pc' = AfterError(pc)
           ELSE /\ \E lines \in Breakdown(transactions, user_id,
                                          MonthPrefix(period), monthly.expense) :
                     out' = Said("report", "done",
                                 Report(period, <<monthly>>, <<yearly>>, <<lines>>))
                /\ UNCHANGED pc

-----------------------------------------------------------------------------
(* What the user types: the texts and tokens the inputs are drawn from. *)

Alice == <<"a","l","i","c","e">>
Bob   == <<" ","b","o","b">>
Blank == <<" ">>
Password8 == <<"p","a","s","s","w","o","r","d">>
Short     == <<"s","h","o","r","t">>

RawIncome  == <<"i","n","c","o","m","e">>
RawExpense == <<"E","X","P","E","N","S","E">>
Bogus      == <<"b","o","g","u","s">>

Food == <<"F","o","o","d">>
Rent == <<"R","e","n","t">>
RawFood == <<" ","F","o","o","d"," ">>
Lunch == <<"l","u","n","c","h">>

D_2024_01_05 == <<"2","0","2","4","-","0","1","-","0","5">>
D_2024_1_5   == <<"2","0","2","4","-","1","-","5">>
D_2024_02_01 == <<"2","0","2","4","-","0","2","-","0","1">>
D_2023_12_31 == <<"2","0","2","3","-","1","2","-","3","1">>
D_2024_13_01 == <<"2","0","2","4","-","1","3","-","0","1">>
D_Slashes    == <<"2","0","2","4","/","0","1","/","0","5">>

Y2024 == <<"2","0","2","4">>
M01   == <<"0","1">>
M1    == <<"1">>
M13   == <<"1","3">>
Period(month, year) == [month |-> month, year |-> year]

Clock(y, m, d) == [y |-> y, m |-> m, d |-> d]

-----------------------------------------------------------------------------
(* The next-state relation over a given choice of inputs. *)

MenuStep(in) ==
    \/ \E f \in in.fails : Launch(f)
    \/ \E n \in in.names, p \in in.passwords, c \in in.passwords,
          f \in in.fails : register_user(n, p, c, "salt", f)
    \/ \E n \in in.names, p \in in.passwords, f \in in.fails :
          login_user(n, p, f)
    \/ Exit
    \/ Logout
    \/ InvalidChoice

AddStep(in) ==
    \E ty \in in.typeTries, c \in in.categories, a \in in.amountTries,
       d \in in.descriptions, dt \in in.dateTries, f \in in.fails :
       add_transaction(ty, c, a, d, dt, f)

ViewStep(in) ==
    \E f \in in.fails : view_transactions(f)

EditStep(in) ==
    \/ \E id \in in.ids, ty \in in.typeTries, c \in in.categories,
          a \in in.amountTries, d \in in.descriptions, dt \in in.dateTries,
          f \in in.fails : update_transaction(id, ty, c, a, d, dt, f)
    \/ \E id \in in.ids, y \in in.confirms, f \in in.fails :
          delete_transaction(id, y, f)

BudgetStep(in) ==
    \/ \E c \in in.budgetCategories, a \in in.budgetAmounts, f \in in.fails :
          set_budget(c, a, f)
    \/ \E now \in in.clocks, f \in in.fails : check_budget(now, f)

ReportStep(in) ==
    \E p \in in.periodTries, f \in in.fails : generate_reports(p, f)

BackupStep(in) ==
    \/ \E f \in in.fails : backup_data(f)
    \/ restore_data(TRUE, NotNum, "n", FALSE)
    \/ \E ch \in in.choices, y \in in.confirms, f \in in.fails :
          restore_data(FALSE, ch, y, f)

\* the whole program on a small set of inputs
AppInputs ==
    [names |-> {Alice, Blank}, passwords |-> {Password8, Short},
     fails |-> BOOLEAN,
     typeTries |-> {<<Bogus, RawExpense>>},
     categories |-> {Food},
     amountTries |-> {<<NotNum, Num(0), Num(1)>>},
     descriptions |-> {Lunch},
     dateTries |-> {<<D_2024_13_01, D_2024_01_05>>},
     ids |-> {NotNum, Num(1), Num(2)},
     confirms |-> {"y"},
     budgetCategories |-> {Food, Blank},
     budgetAmounts |-> {NotNum, Num(0), Num(1)},
     clocks |-> {Clock(2024, 1, 15)},
     periodTries |-> {<<Period(M13, Y2024), Period(M01, Y2024)>>},
     choices |-> {NotNum, Num(0), Num(1)}]

Next ==
    \/ MenuStep(AppInputs)
    \/ AddStep(AppInputs)
    \/ ViewStep(AppInputs)
    \/ EditStep(AppInputs)
    \/ BudgetStep(AppInputs)
    \/ ReportStep(AppInputs)
    \/ BackupStep(AppInputs)

Spec == Init /\ [][Next]_vars

-----------------------------------------------------------------------------
(* The session: two users, right and wrong passwords, every dashboard *)
(* operation on one input each.                                        *)

SessionInputs ==
    [names |-> {Alice, Bob}, passwords |-> {Password8, Short},
     fails |-> BOOLEAN,
     typeTries |-> {<<RawExpense>>},
     categories |-> {Food},
     amountTries |-> {<<Num(1)>>},
     descriptions |-> {Lunch},
     dateTries |-> {<<D_2024_01_05>>},
     ids |-> {Num(1)},
     confirms |-> {"y"},
     budgetCategories |-> {Food},
     budgetAmounts |-> {Num(1)},
     clocks |-> {Clock(2024, 1, 15)},
     periodTries |-> {<<Period(M01, Y2024)>>}]

NextSession ==
    \/ MenuStep(SessionInputs)
    \/ AddStep(SessionInputs)
    \/ ViewStep(SessionInputs)
    \/ EditStep(SessionInputs)
    \/ BudgetStep(SessionInputs)
    \/ ReportStep(SessionInputs)

SpecSession == Init /\ [][NextSession]_vars

-----------------------------------------------------------------------------
(* The ledger on richer inputs: two users, the fields of a row vary. *)

LedgerInputs ==
    [names |-> {Alice, Bob}, passwords |-> {Password8},
     fails |-> {FALSE},
     typeTries |-> {<<RawIncome>>, <<Bogus, RawExpense>>},
     categories |-> {RawFood, Blank},
     amountTries |-> {<<NotNum, Num(0), Num(2)>>},
     descriptions |-> {Lunch},
     dateTries |-> {<<D_2024_01_05>>, <<D_2024_13_01, D_Slashes, D_2024_1_5>>},
     ids |-> {NotNum, Num(1), Num(2), Num(3)},
     confirms |-> {"Y", "n"}]

NextLedger ==
    \/ MenuStep(LedgerInputs)
    \/ AddStep(LedgerInputs)
    \/ ViewStep(LedgerInputs)
    \/ EditStep(LedgerInputs)

SpecLedger == Init /\ [][NextLedger]_vars

-----------------------------------------------------------------------------
(* The budget engine: two users, budgets for one category, expenses of two *)
(* categories dated in and after the month of the clock.                   *)

BudgetInputs ==
    [names |-> {Alice, Bob}, passwords |-> {Password8},
     fails |-> {FALSE},
     typeTries |-> {<<RawExpense>>},
     categories |-> {Food, Rent},
     amountTries |-> {<<Num(2)>>},
     descriptions |-> {<<>>},
     dateTries |-> {<<D_2024_01_05>>, <<D_2024_02_01>>},
     budgetCategories |-> {RawFood, Blank},
     budgetAmounts |-> {NotNum, Num(0), Num(1), Num(2)},
     clocks |-> {Clock(2024, 1, 15)}]

NextBudget ==
    \/ MenuStep(BudgetInputs)
    \/ AddStep(BudgetInputs)
    \/ BudgetStep(BudgetInputs)

SpecBudget == Init /\ [][NextBudget]_vars

-----------------------------------------------------------------------------
(* The report generator: rows of two months and two years, and the period  *)
(* typed with and without a leading zero.                                  *)

ReportInputs ==
    [names |-> {Alice, Bob}, passwords |-> {Password8},
     fails |-> {FALSE},
     typeTries |-> {<<RawIncome>>, <<RawExpense>>},
     categories |-> {Food, Rent},
     amountTries |-> {<<Num(1)>>, <<Num(2)>>},
     descriptions |-> {<<>>},
     dateTries |-> {<<D_2024_01_05>>, <<D_2024_1_5>>, <<D_2024_02_01>>,
                    <<D_2023_12_31>>},
     periodTries |-> {<<Period(M01, Y2024)>>,
                      <<Period(M13, Y2024), Period(M1, Y2024)>>}]

NextReport ==
    \/ MenuStep(ReportInputs)
    \/ AddStep(ReportInputs)
    \/ ReportStep(ReportInputs)

SpecReport == Init /\ [][NextReport]_vars

-----------------------------------------------------------------------------
(* Budget engine: claims C1, C2, C8, checked under SpecBudget. *)

\* a date of the month of the clock, from its first day through the clock's day
InCurrentMonth(date, now) ==
    LET p == Strptime(date)
    IN  p.ok /\ p.y = now.y /\ p.m = now.m /\ p.d <= now.d

SpentThisMonth(uid, category, now) ==
    SumAmount(SelectSeq(transactions, LAMBDA t :
        /\ t.user_id = uid
        /\ t.category = category
        /\ t.type = Expense
        /\ InCurrentMonth(t.date, now)))

\* C1: check_budget reports a budget as exceeded exactly when the user's
\* expenses of that category dated within the current calendar month (first
\* day through the query time) sum to strictly more than the budget amount.
C1_ExceededIffMonthSpendAboveBudget ==
    out.op = "check_budget" /\ out.msg \in {"exceeded", "all within limits"} =>
        \A l \in out.data.lines :
            l.exceeded <=>
                SpentThisMonth(user_id, l.category, out.data.now) > l.budget_amount

PairOf(b) == <<b.user_id, b.category>>

C2_UniquePairs ==
    \A i, j \in 1..Len(budgets) :
        i # j => PairOf(budgets[i]) # PairOf(budgets[j])

C2_SetStep ==
    IF out'.op = "set_budget" /\ out'.msg = "set"
    THEN LET c == out'.data.category
             Same(b)  == b.user_id = user_id /\ b.category = c
             Other(b) == ~Same(b)
             mine == SelectSeq(budgets', Same)
         IN  /\ Len(mine) = 1
             /\ mine[1].amount = out'.data.amount
             /\ SelectSeq(budgets', Other) = SelectSeq(budgets, Other)
    ELSE budgets' = budgets

\* C2: storage never holds two Budget rows for one (user, category) pair; a
\* successful set_budget leaves exactly one row for its pair, carrying the
\* amount just given, and leaves the rows of every other pair as they were;
\* no other step changes the budgets.
C2_BudgetUpsert == [](C2_UniquePairs) /\ [][C2_SetStep]_vars

\* a budget was set for a pair while a row of another pair is stored
C2_Witness ==
    /\ out.op = "set_budget" /\ out.msg = "set"
    /\ Len(budgets) = 2
    /\ budgets[2].user_id = user_id /\ budgets[2].amount = out.data.amount
    /\ budgets[1].user_id # user_id

\* C8: check_budget for a user without Budget rows gives the "no budgets
\* set" signal and no result line; for a user with Budget rows it gives one
\* line per Budget row of that user, for exactly the budgeted categories,
\* and never the "no budgets set" signal.
C8_BudgetTableDrivesResults ==
    out.op = "check_budget" /\ out.msg # "failed" =>
        LET rows == {i \in 1..Len(budgets) : budgets[i].user_id = user_id}
        IN  IF rows = {}
            THEN out.msg = "no budgets set" /\ out.data.lines = {}
            ELSE /\ out.msg \in {"exceeded", "all within limits"}
                 /\ Cardinality(out.data.lines) = Cardinality(rows)
                 /\ {l.category : l \in out.data.lines}
                        = {budgets[i].category : i \in rows}

\* a user with a budget and no matching expense, but an expense of a
\* category that has no budget, gets a line for the budget only
C8_Witness ==
    /\ out.op = "check_budget" /\ out.msg = "all within limits"
    /\ \E i \in 1..Len(transactions) :
           /\ transactions[i].user_id = user_id
           /\ transactions[i].category \notin {l.category : l \in out.data.lines}
    /\ \A l \in out.data.lines : l.spent = 0

-----------------------------------------------------------------------------
(* Report generator: claims C3, C4, C5, checked under SpecReport. *)

PeriodOf(p) == Strptime(FirstOfMonth(p))

InMonthOf(t, p) ==
    /\ Strptime(t.date).y = PeriodOf(p).y
    /\ Strptime(t.date).m = PeriodOf(p).m

InYearOf(t, p) == Strptime(t.date).y = PeriodOf(p).y

MonthSum(type, p) ==
    SumAmount(SelectSeq(transactions, LAMBDA t :
        t.user_id = user_id /\ t.type = type /\ InMonthOf(t, p)))

YearSum(type, p) ==
    SumAmount(SelectSeq(transactions, LAMBDA t :
        t.user_id = user_id /\ t.type = type /\ InYearOf(t, p)))

\* C3: the monthly income and expense generate_reports prints are the sums
\* of the user's Income and Expense transactions dated in the calendar month
\* asked for, and the savings are income minus expense.
C3_MonthlyTotalsOfCalendarMonth ==
    out.op = "report" /\ out.data.monthly # <<>> =>
        LET p == out.data.period
            m == out.data.monthly[1]
        IN  /\ m.income = MonthSum(Income, p)
            /\ m.expense = MonthSum(Expense, p)
            /\ m.savings = MonthSum(Income, p) - MonthSum(Expense, p)

\* C4: for an accepted period generate_reports prints yearly totals: the
\* sums of the user's Income and Expense transactions dated in that year,
\* and their difference.
C4_YearlyTotalsProduced ==
    out.op = "report" /\ out.data.monthly # <<>> =>
        /\ out.data.yearly # <<>>
        /\ LET p == out.data.period
               y == out.data.yearly[1]
           IN  /\ y.income = YearSum(Income, p)
               /\ y.expense = YearSum(Expense, p)
               /\ y.savings = YearSum(Income, p) - YearSum(Expense, p)

MonthCategorySum(c, p) ==
    SumAmount(SelectSeq(transactions, LAMBDA t :
        t.user_id = user_id /\ t.type = Expense /\ t.category = c
        /\ InMonthOf(t, p)))

\* C5: for an accepted period generate_reports prints a category breakdown:
\* one entry per category with an Expense of the user in the month, with the
\* summed amount, in descending order of amount, each percentage being
\* amount / monthlyExpense * 100, or 0 when monthlyExpense is 0.
C5_BreakdownProduced ==
    out.op = "report" /\ out.data.monthly # <<>> =>
        /\ out.data.breakdown # <<>>
        /\ LET p == out.data.period
               lines == out.data.breakdown[1]
               cats == {transactions[i].category : i \in
                          {j \in 1..Len(transactions) :
                              /\ transactions[j].user_id = user_id
                              /\ transactions[j].type = Expense
                              /\ InMonthOf(transactions[j], p)}}
           IN  /\ Len(lines) = Cardinality(cats)
               /\ {lines[i].category : i \in 1..Len(lines)} = cats
               /\ \A i \in 1..Len(lines) :
                      /\ lines[i].amount = MonthCategorySum(lines[i].category, p)
                      /\ lines[i].percentage.num * MonthSum(Expense, p)
                             = lines[i].amount * 100 * lines[i].percentage.den
               /\ \A i, j \in 1..Len(lines) :
                      i < j => lines[i].amount >= lines[j].amount

-----------------------------------------------------------------------------
(* Ledger: claims C6, C7, C9, checked under SpecLedger. *)

StoredOf(uid) ==
    {Shown(transactions[i]) : i \in
        {j \in 1..Len(transactions) : transactions[j].user_id = uid}}

C6_ViewExact ==
    out.op = "view" /\ out.msg # "failed" =>
        /\ {out.data[i] : i \in 1..Len(out.data)} = StoredOf(user_id)
        /\ Len(out.data) = Cardinality(StoredOf(user_id))

C6_AddStep ==
    out'.op = "add" /\ out'.msg = "added" =>
        LET e == out'.data
            row == [id |-> e.id, type |-> Capitalize(e.type),
                    category |-> Strip(e.category), amount |-> e.amount.val,
                    description |-> e.description, date |-> e.date]
        IN  /\ \A listing \in ViewRows(transactions', user_id) :
                   \E i \in 1..Len(listing) : listing[i] = row
            /\ \A v \in 0..(Len(users) + 1) : v # user_id =>
                   \A listing \in ViewRows(transactions', v) :
                       \A i \in 1..Len(listing) : listing[i].id # e.id

\* C6 (as amended): a listing for user U holds exactly the stored
\* transactions owned by U; a transaction U has just added is in U's listing
\* with the kind entered, capitalised, the category entered, stripped of
\* surrounding whitespace, and the amount, description and date entered, and
\* it is in no other user's listing.
C6_RoundTripAndIsolation == [](C6_ViewExact) /\ [][C6_AddStep]_vars

\* C6 (as stated): after a successful add the user's listing holds the
\* transaction with the very kind, category, amount, description and date
\* that were entered.
C6_EnteredIsListed ==
    out.op = "add" /\ out.msg = "added" =>
        LET e == out.data
            row == [id |-> e.id, type |-> e.type, category |-> e.category,
                    amount |-> e.amount.val, description |-> e.description,
                    date |-> e.date]
        IN  \A listing \in ViewRows(transactions, user_id) :
                \E i \in 1..Len(listing) : listing[i] = row

\* a user has added a transaction whose category was typed with surrounding
\* whitespace, while another user's transaction is stored
C6_Witness ==
    /\ out.op = "add" /\ out.msg = "added"
    /\ Strip(out.data.category) # out.data.category
    /\ \E i \in 1..Len(transactions) : transactions[i].user_id # user_id

C7_DeleteStep ==
    out'.op = "delete" =>
        IF out'.msg \in {"deleted", "not found"}
        THEN LET id == out'.data[1]
                 owned == \E i \in 1..Len(transactions) :
                              /\ transactions[i].id = id
                              /\ transactions[i].user_id = user_id
             IN  IF owned
                 THEN /\ out'.msg = "deleted"
                      /\ transactions' = SelectSeq(transactions,
                                                   LAMBDA t : t.id # id)
                      /\ Len(transactions') = Len(transactions) - 1
                 ELSE /\ out'.msg = "not found"
                      /\ transactions' = transactions
        ELSE transactions' = transactions

\* C7: a confirmed delete of an id that does not exist or belongs to another
\* user reports "not found" and leaves the stored transactions as they were;
\* of an id the user owns, it reports "deleted" and removes that row only.
C7_ScopedDelete == [][C7_DeleteStep]_vars

\* a delete of another user's transaction was answered "not found"
C7_Witness ==
    /\ out.op = "delete" /\ out.msg = "not found"
    /\ \E i \in 1..Len(transactions) :
           /\ transactions[i].id = out.data[1]
           /\ transactions[i].user_id # user_id

\* C9: every stored transaction has amount > 0, kind Income or Expense, a
\* non-empty category and a valid calendar date written in the fixed-width
\* form YYYY-MM-DD.
C9_StoredRowsValid ==
    \A i \in 1..Len(transactions) :
        LET t == transactions[i]
            p == Strptime(t.date)
        IN  /\ t.amount > 0
            /\ t.type \in TypeNames
            /\ t.category # <<>>
            /\ p.ok
            /\ t.date = IsoDate(p.y, p.m, p.d)

C11_UpdateStep ==
    out'.op = "update" =>
        IF out'.msg \in {"updated", "not found"}
        THEN LET id == out'.data[1]
                 owned == \E i \in 1..Len(transactions) :
                              /\ transactions[i].id = id
                              /\ transactions[i].user_id = user_id
             IN  IF owned
                 THEN /\ out'.msg = "updated"
                      /\ Len(transactions') = Len(transactions)
                      /\ \A i \in 1..Len(transactions) :
                             IF transactions[i].id = id
                             THEN /\ transactions'[i].id = id
                                  /\ transactions'[i].user_id = user_id
                                  /\ DOMAIN transactions'[i] =
                                         DOMAIN transactions[i]
                             ELSE transactions'[i] = transactions[i]
                 ELSE /\ out'.msg = "not found"
                      /\ transactions' = transactions
        ELSE transactions' = transactions

\* C11: an update of an id that does not exist or belongs to another user
\* reports "not found" and changes no stored row; an update of an id the
\* user owns, with valid new fields, reports "updated" and leaves the id and
\* owner of that row, and every other row, as they were.
C11_ScopedUpdate == [][C11_UpdateStep]_vars

\* a user has updated a transaction while another user's transaction is
\* stored
C11_Witness ==
    /\ out.op = "update" /\ out.msg = "updated"
    /\ \E i \in 1..Len(transactions) :
           /\ transactions[i].id = out.data[1]
           /\ transactions[i].user_id = user_id
    /\ \E i \in 1..Len(transactions) : transactions[i].user_id # user_id

-----------------------------------------------------------------------------
(* Error handling: claim C10, checked under Spec. *)

ErrorMsgs ==
    {"failed", "critical error", "username exists", "username empty",
     "passwords do not match", "password too short", "invalid",
     "invalid choice", "invalid id", "invalid amount", "invalid selection",
     "category empty", "amount not positive", "not found"}

\* C10 as stated: the process ends only through Exit or Logout, and after
\* any error the program is at a menu prompt.
C10_OnlyExitOrLogoutEnds ==
    /\ pc = "done" => out.op \in {"exit", "logout"}
    /\ out.msg \in ErrorMsgs => pc \in {"main", "dash"}

\* C10 as amended: after an error of a menu operation the program is at a
\* menu prompt; the process ends only through Exit, Logout, or a failure of
\* create_database at start-up, reported as a critical error.
C10_MenuErrorsReturnToMenu ==
    /\ pc = "done" =>
           \/ out.op \in {"exit", "logout"}
           \/ out.op = "launch" /\ out.msg = "critical error"
    /\ out.msg \in ErrorMsgs /\ out.op # "launch" => pc \in {"main", "dash"}

\* a storage failure in a dashboard handler, with the dashboard still open
C10_Witness ==
    out.op = "add" /\ out.msg = "failed" /\ pc = "dash" /\ user_id # 0

-----------------------------------------------------------------------------
(* Referential integrity: claim C12, checked under Spec. *)

UserIds == {users[i].id : i \in 1..Len(users)}

\* C12: every stored transaction and every stored budget references a user
\* that exists in the users table of the current storage.
C12_ReferentialIntegrity ==
    /\ \A i \in 1..Len(transactions) : transactions[i].user_id \in UserIds
    /\ \A i \in 1..Len(budgets) : budgets[i].user_id \in UserIds

-----------------------------------------------------------------------------
(* Session gating: claim C13, checked under SpecSession. *)

DashOps ==
    {"add", "view", "update", "delete", "set_budget", "check_budget",
     "report"}

C13_LoggedInAtDashboard == (pc = "dash") <=> (user_id # 0)

C13_SessionStep ==
    /\ out'.op \in DashOps =>
           /\ pc = "dash" /\ pc' = "dash"
           /\ user_id # 0 /\ user_id' = user_id
    /\ out'.op = "add" /\ out'.msg = "added" =>
           transactions'[Len(transactions')].user_id = user_id
    /\ out'.op = "set_budget" /\ out'.msg = "set" =>
           \E i \in 1..Len(budgets') :
               /\ budgets'[i].user_id = user_id
               /\ budgets'[i].category = out'.data.category
    /\ pc # "dash" /\ pc' = "dash" =>
           /\ pc = "main"
           /\ out'.op = "login" /\ out'.msg = "welcome"
           /\ \E i \in 1..Len(users) :
                  /\ users[i].username = Strip(out'.data.username)
                  /\ Pbkdf2(out'.data.password, users[i].password.salt)
                         = users[i].password.hash
                  /\ user_id' = users[i].id
    /\ pc = "dash" /\ pc' = "dash" => user_id' = user_id
    /\ out'.op = "login" /\ out'.msg # "welcome" =>
           pc' = "main" /\ user_id' = 0
    /\ out'.op = "logout" => pc = "dash" /\ pc' = "done" /\ user_id' = 0
    /\ pc = "done" => out'.op = "launch"

\* C13: a dashboard operation runs only at the dashboard, which is entered
\* only by a login whose username is stored and whose password verifies
\* against the stored credential; it runs with the id of that user; a failed
\* login leaves the program in the top-level menu; Logout ends the run, so
\* no dashboard operation follows it before the program is started again.
C13_SessionGating ==
    [](C13_LoggedInAtDashboard) /\ [][C13_SessionStep]_vars

\* the second registered user has added a transaction of their own while
\* the first user's transaction is stored
C13_Witness ==
    /\ out.op = "add" /\ out.msg = "added" /\ pc = "dash"
    /\ Len(users) = 2 /\ user_id = users[2].id
    /\ transactions[Len(transactions)].user_id = user_id
    /\ \E i \in 1..Len(transactions) : transactions[i].user_id = users[1].id

====
